---- MODULE Spec2Model ----
(***************************************************************************)
(* Model of vrplib/parse/parse_distances.py: the reconstruction of an      *)
(* n-by-n distance matrix from the edge weight section of a VRP instance.  *)
(*                                                                         *)
(* Conventions.                                                            *)
(*  - Python lists are TLA+ sequences (1-based); a Python index k is the   *)
(*    TLA+ index k + 1.  Arrays produced by numpy are functions over       *)
(*    0..n-1, so that the matrix indices are the ones of the source.       *)
(*  - Python strings are sequences of one-character strings, so that the   *)
(*    substring tests of the source are computed, not assumed.             *)
(*  - An optional argument is None or Some(v).                             *)
(*  - A float is Exact(k) (the integer k, exactly representable) or        *)
(*    Root(s) (the float nearest to the irrational sqrt(s), s not a        *)
(*    perfect square).  Within the bounds of the model the rounding error  *)
(*    of a float64 (below 1e-12) never changes a floor or a rounding.      *)
(*  - A call ends in an array or in a raised exception.                    *)
(***************************************************************************)
EXTENDS Integers, Sequences, FiniteSets, TLC

VARIABLES data, edge_weight_type, edge_weight_format, node_coord, comment,
          numpy_legacy, pc, result

vars == <<data, edge_weight_type, edge_weight_format, node_coord, comment,
          numpy_legacy, pc, result>>

(***************************************************************************)
(* Bounds of the model.                                                    *)
(***************************************************************************)
MaxNodes == 2
MaxCoord == 3
MaxRows == 3
MaxRowLen == 4
MaxBase == 1

(***************************************************************************)
(* Values.                                                                 *)
(***************************************************************************)
None == [some |-> FALSE]
Some(v) == [some |-> TRUE, val |-> v]

Exact(k) == [surd |-> FALSE, v |-> k]
Root(s) == [surd |-> TRUE, v |-> s]

Array2(r, c, m) == [kind |-> "array", shape |-> <<r, c>>, m |-> m]
Array1(r, m) == [kind |-> "array", shape |-> <<r>>, m |-> m]
Raise(exc, msg) == [kind |-> "error", exc |-> exc, msg |-> msg]

NoResult == [kind |-> "none"]

(***************************************************************************)
(* The literals of the source.                                             *)
(***************************************************************************)
EUC_2D == <<"E", "U", "C", "_", "2", "D">>
FLOOR_2D == <<"F", "L", "O", "O", "R", "_", "2", "D">>
EXACT_2D == <<"E", "X", "A", "C", "T", "_", "2", "D">>
EXPLICIT == <<"E", "X", "P", "L", "I", "C", "I", "T">>
LOWER_ROW == <<"L", "O", "W", "E", "R", "_", "R", "O", "W">>
FULL_MATRIX == <<"F", "U", "L", "L", "_", "M", "A", "T", "R", "I", "X">>
Str2D == <<"2", "D">>
StrEilon == <<"E", "i", "l", "o", "n">>

MsgTypeUnknown == "Edge weight type unknown."
MsgNoCoords == "Node coordinates are required for Euclidean edge weight type."
MsgFormatUnknown == "Edge weight format unknown."
MsgTypeOrFormatUnknown == "Edge weight type or format unknown."
MsgIndex == "list index out of range"
MsgInhomogeneous == "setting an array element with a sequence."

(* Python's `sub in s` on strings. *)
Contains(sub, s) ==
    \E k \in 0..(Len(s) - Len(sub)) : SubSeq(s, k + 1, k + Len(sub)) = sub

(***************************************************************************)
(* Arithmetic of the source.                                               *)
(***************************************************************************)
RECURSIVE ISqrtSearch(_, _, _)
(* lo * lo <= s < hi * hi; the greatest k with k * k <= s.  The test      *)
(* mid * mid <= s is written mid <= s \div mid, which cannot overflow.     *)
ISqrtSearch(s, lo, hi) ==
    IF hi - lo <= 1 THEN lo
    ELSE LET mid == (lo + hi) \div 2
         IN IF mid <= s \div mid THEN ISqrtSearch(s, mid, hi)
            ELSE ISqrtSearch(s, lo, mid)

(* int(s ** 0.5) for an integer s >= 0. *)
ISqrt(s) == ISqrtSearch(s, 0, s + 1)

(* np.linalg.norm of the difference of two integer points. *)
norm(p, q) ==
    LET dx == p[1] - q[1]
        dy == p[2] - q[2]
        s == dx * dx + dy * dy
        r == ISqrt(s)
    IN IF r * r = s THEN Exact(r) ELSE Root(s)

(* np.floor, element-wise. *)
np_floor(x) == IF x.surd THEN Exact(ISqrt(x.v)) ELSE x

np_round_trunc(x) ==
    IF x.surd THEN Exact(ISqrt(1000000 * x.v)) ELSE Exact(1000 * x.v)

(* np.round(x * 1000), element-wise: 1000 * sqrt(s) is never half-way. *)
np_round(x) ==
    IF x.surd
    THEN LET t == 1000000 * x.v
             f == ISqrt(t)
         IN IF t > f * f + f THEN Exact(f + 1) ELSE Exact(f)
    ELSE Exact(1000 * x.v)

(* np.zeros((r, c)). *)
np_zeros(r, c) == [i \in 0..(r - 1) |-> [j \in 0..(c - 1) |-> Exact(0)]]

(* np.floor(distance) and np.round(distance * 1000) on a whole array. *)
floor_array(a) ==
    [a EXCEPT !.m = [i \in DOMAIN a.m |-> [j \in DOMAIN a.m[i] |-> np_floor(a.m[i][j])]]]

round_array(a) ==
    [a EXCEPT !.m = [i \in DOMAIN a.m |-> [j \in DOMAIN a.m[i] |-> np_round(a.m[i][j])]]]

(***************************************************************************)
(* itertools.combinations(range(n), r=2) and sorted().                     *)
(***************************************************************************)
RECURSIVE PairsFrom(_, _, _)
PairsFrom(i, j, n) ==
    IF i >= n - 1 THEN <<>>
    ELSE IF j >= n THEN PairsFrom(i + 1, i + 2, n)
    ELSE <<(<<i, j>>)>> \o PairsFrom(i, j + 1, n)

combinations(n) == PairsFrom(0, 1, n)

LexLess(p, q) == p[1] < q[1] \/ (p[1] = q[1] /\ p[2] < q[2])

RECURSIVE Insert(_, _)
Insert(p, s) ==
    IF s = <<>> THEN <<p>>
    ELSE IF LexLess(Head(s), p) THEN <<Head(s)>> \o Insert(p, Tail(s))
    ELSE <<p>> \o s

RECURSIVE InsertDescending(_, _)
InsertDescending(p, s) ==
    IF s = <<>> THEN <<p>>
    ELSE IF LexLess(p, Head(s)) THEN <<Head(s)>> \o InsertDescending(p, Tail(s))
    ELSE <<p>> \o s

RECURSIVE sorted_Descending(_)
sorted_Descending(s) ==
    IF s = <<>> THEN <<>> ELSE InsertDescending(Head(s), sorted_Descending(Tail(s)))

RECURSIVE sorted(_)
(* sorted() on a list of pairs: ascending lexicographic order. *)
sorted(s) == IF s = <<>> THEN <<>> ELSE Insert(Head(s), sorted(Tail(s)))

(***************************************************************************)
(* pairwise_euclidean.                                                     *)
(***************************************************************************)
RECURSIVE EuclidLoop(_, _, _, _)
(* The loop body of pairwise_euclidean, from the k-th pair on. *)
EuclidLoop(coords, pairs, k, distances) ==
    IF k > Len(pairs) THEN distances
    ELSE LET i == pairs[k][1]
             j == pairs[k][2]
             d_ij == norm(coords[i + 1], coords[j + 1])
         IN EuclidLoop(coords, pairs, k + 1,
                       [distances EXCEPT ![i][j] = d_ij, ![j][i] = d_ij])

pairwise_euclidean(coords) ==
    LET n == Len(coords)
    IN Array2(n, n, EuclidLoop(coords, combinations(n), 1, np_zeros(n, n)))

(***************************************************************************)
(* from_lower_row.                                                         *)
(***************************************************************************)
RECURSIVE LowerRowLoop_Reversed(_, _, _, _)
LowerRowLoop_Reversed(triangular, pairs, k, distances) ==
    IF k > Len(pairs) THEN Array2(Len(triangular) + 1, Len(triangular) + 1, distances)
    ELSE LET j == pairs[k][1]
             i == pairs[k][2]
             row == triangular[i]
         IN IF j >= Len(row) THEN Raise("IndexError", MsgIndex)
            ELSE LET t_ij == Exact(row[Len(row) - j])
                 IN LowerRowLoop_Reversed(triangular, pairs, k + 1,
                        [distances EXCEPT ![i][j] = t_ij, ![j][i] = t_ij])

RECURSIVE LowerRowLoop_NoMirror(_, _, _, _)
LowerRowLoop_NoMirror(triangular, pairs, k, distances) ==
    IF k > Len(pairs) THEN Array2(Len(triangular) + 1, Len(triangular) + 1, distances)
    ELSE LET j == pairs[k][1]
             i == pairs[k][2]
             row == triangular[i]
         IN IF j >= Len(row) THEN Raise("IndexError", MsgIndex)
            ELSE LET t_ij == Exact(row[j + 1])
                 IN LowerRowLoop_NoMirror(triangular, pairs, k + 1,
                        [distances EXCEPT ![i][j] = t_ij])

RECURSIVE LowerRowLoop(_, _, _, _)
(* The loop of from_lower_row, from the k-th pair (j, i) on.  The row of   *)
(* node i is triangular[i - 1]; reading past its end raises IndexError.    *)
LowerRowLoop(triangular, pairs, k, distances) ==
    IF k > Len(pairs) THEN Array2(Len(triangular) + 1, Len(triangular) + 1, distances)
    ELSE LET j == pairs[k][1]
             i == pairs[k][2]
             row == triangular[i]
         IN IF j >= Len(row) THEN Raise("IndexError", MsgIndex)
            ELSE LET t_ij == Exact(row[j + 1])
                 IN LowerRowLoop(triangular, pairs, k + 1,
                        [distances EXCEPT ![i][j] = t_ij, ![j][i] = t_ij])

from_lower_row(triangular) ==
    LET n == Len(triangular) + 1
    IN LowerRowLoop(triangular, combinations(n), 1, np_zeros(n, n))

(***************************************************************************)
(* from_eilon and is_triangular_number.                                    *)
(***************************************************************************)
RECURSIVE flatten(_)
(* [dist for row in edge_weights for dist in row] *)
flatten(edge_weights) ==
    IF edge_weights = <<>> THEN <<>>
    ELSE Head(edge_weights) \o flatten(Tail(edge_weights))

RECURSIVE EilonLoop(_, _, _, _, _)
(* The loop of from_eilon over enumerate(indices), from position k on;     *)
(* idx = k - 1.  Reading flattened[idx] past its end raises IndexError.    *)
EilonLoop(flattened, indices, k, n, distances) ==
    IF k > Len(indices) THEN Array2(n, n, distances)
    ELSE LET i == indices[k][1]
             j == indices[k][2]
         IN IF k > Len(flattened) THEN Raise("IndexError", MsgIndex)
            ELSE LET d_ij == Exact(flattened[k])
                 IN EilonLoop(flattened, indices, k + 1, n,
                        [distances EXCEPT ![i][j] = d_ij, ![j][i] = d_ij])

EilonDimension_NoPlusOne(len) == ISqrt(2 * len)

(* n = int((2 * len(flattened)) ** 0.5) + 1 *)
EilonDimension(len) == ISqrt(2 * len) + 1

from_eilon(edge_weights) ==
    LET flattened == flatten(edge_weights)
        n == EilonDimension(Len(flattened))
        indices == sorted(combinations(n))
    IN EilonLoop(flattened, indices, 1, n, np_zeros(n, n))

is_triangular_number(n) ==
    LET i == ISqrt(2 * n)
    IN i * (i + 1) = 2 * n

(***************************************************************************)
(* np.array(data) on a list of lists of numbers.  A ragged list raises    *)
(* ValueError on a current numpy and gives a one-dimensional array of list *)
(* objects on a legacy one (numpy_legacy).                                 *)
(***************************************************************************)
np_array(d) ==
    IF d = <<>> THEN Array1(0, <<>>)
    ELSE IF \A r \in 1..Len(d) : Len(d[r]) = Len(d[1])
    THEN Array2(Len(d), Len(d[1]),
                [i \in 0..(Len(d) - 1) |->
                    [j \in 0..(Len(d[1]) - 1) |-> Exact(d[i + 1][j + 1])]])
    ELSE IF numpy_legacy THEN Array1(Len(d), d)
    ELSE Raise("ValueError", MsgInhomogeneous)

(***************************************************************************)
(* parse_distances.                                                        *)
(***************************************************************************)
parse_distances_dispatch_NoEilon(d, type, format, coord, cmt) ==
    IF Contains(Str2D, type) /\ coord = None THEN Raise("ValueError", MsgNoCoords)
    ELSE IF Contains(Str2D, type) /\ type = EUC_2D THEN pairwise_euclidean(coord.val)
    ELSE IF Contains(Str2D, type) /\ type = FLOOR_2D
         THEN floor_array(pairwise_euclidean(coord.val))
    ELSE IF Contains(Str2D, type) /\ type = EXACT_2D
         THEN round_array(pairwise_euclidean(coord.val))
    ELSE IF type = EXPLICIT /\ format \notin {Some(LOWER_ROW), Some(FULL_MATRIX)}
         THEN Raise("ValueError", MsgFormatUnknown)
    ELSE IF type = EXPLICIT /\ format = Some(LOWER_ROW) THEN from_lower_row(d)
    ELSE IF type = EXPLICIT /\ format = Some(FULL_MATRIX) THEN np_array(d)
    ELSE Raise("ValueError", MsgTypeOrFormatUnknown)

(* Lines 44-75: the dispatch once the type is known to be accepted. *)
parse_distances_dispatch(d, type, format, coord, cmt) ==
    IF Contains(Str2D, type) /\ coord = None THEN Raise("ValueError", MsgNoCoords)
    ELSE IF Contains(Str2D, type) /\ type = EUC_2D THEN pairwise_euclidean(coord.val)
    ELSE IF Contains(Str2D, type) /\ type = FLOOR_2D
         THEN floor_array(pairwise_euclidean(coord.val))
    ELSE IF Contains(Str2D, type) /\ type = EXACT_2D
         THEN round_array(pairwise_euclidean(coord.val))
    ELSE IF type = EXPLICIT /\ format \notin {Some(LOWER_ROW), Some(FULL_MATRIX)}
         THEN Raise("ValueError", MsgFormatUnknown)
    ELSE IF type = EXPLICIT /\ format = Some(LOWER_ROW)
         THEN IF cmt # None /\ Contains(StrEilon, cmt.val)
              THEN from_eilon(d)
              ELSE from_lower_row(d)
    ELSE IF type = EXPLICIT /\ format = Some(FULL_MATRIX) THEN np_array(d)
    ELSE Raise("ValueError", MsgTypeOrFormatUnknown)

parse_distances_CoordsFirst(d, type, format, coord, cmt) ==
    IF Contains(Str2D, type) /\ coord = None THEN Raise("ValueError", MsgNoCoords)
    ELSE IF type \notin {EUC_2D, FLOOR_2D, EXACT_2D, EXPLICIT}
    THEN Raise("ValueError", MsgTypeUnknown)
    ELSE parse_distances_dispatch(d, type, format, coord, cmt)

parse_distances(d, type, format, coord, cmt) ==
    IF type \notin {EUC_2D, FLOOR_2D, EXACT_2D, EXPLICIT}
    THEN Raise("ValueError", MsgTypeUnknown)
    ELSE parse_distances_dispatch(d, type, format, coord, cmt)

(***************************************************************************)
(* The inputs of a call.                                                   *)
(***************************************************************************)
BOGUS == <<"B", "O", "G", "U", "S">>
MAN_2D == <<"M", "A", "N", "_", "2", "D">>
UPPER_ROW == <<"U", "P", "P", "E", "R", "_", "R", "O", "W">>

Types == {EUC_2D, FLOOR_2D, EXACT_2D, EXPLICIT, BOGUS, MAN_2D}
Formats == {None, Some(LOWER_ROW), Some(FULL_MATRIX), Some(UPPER_ROW)}
Comments == {None, Some(<<>>), Some(StrEilon),
             Some(<<"(">> \o StrEilon \o <<")">>),
             Some(<<"e", "i", "l", "o", "n">>),
             Some(<<"E", "i", "l", "o">>)}

Points == (0..MaxCoord) \X (0..MaxCoord)
ExampleCoords == {<< <<0, 0>>, <<3, 4>> >>,
                  << <<1, 1>>, <<4, 5>>, <<1, 5>> >>,
                  << <<0, 0>>, <<1, 1>>, <<0, 2>> >>,
                  << <<0, 0>>, <<2, 3>>, <<3, 0>>, <<3, 3>> >>}
CoordSets == UNION {[1..n -> Points] : n \in 0..MaxNodes} \cup ExampleCoords

(* A payload is a shape (the length of each row) filled, in row-major      *)
(* order, with base + (k % period) at flat position k: all values equal    *)
(* (period 1), alternating (period 2) or pairwise distinct.                *)
Shapes == UNION {[1..r -> 0..MaxRowLen] : r \in 0..MaxRows}
Periods == {1, 2, MaxRows * MaxRowLen + 1}

RECURSIVE SumTo(_, _)
SumTo(shape, r) == IF r = 0 THEN 0 ELSE shape[r] + SumTo(shape, r - 1)

Fill(shape, base, period) ==
    [r \in 1..Len(shape) |->
        [c \in 1..shape[r] |-> base + ((SumTo(shape, r - 1) + c - 1) % period)]]

ExamplePayloads == {<< <<1>>, <<2, 3>> >>,
                    << <<0, 2, 3>>, <<2, 0, 4>>, <<3, 4, 0>> >>}
Payloads == {Fill(s, b, p) : s \in Shapes, b \in 0..MaxBase, p \in Periods}
                \cup ExamplePayloads
SmallPayloads == {<<>>, << <<1>>, <<2, 3>> >>, << <<0, 1>>, <<1, 0>> >>}
SmallCoords == {None, Some(<<>>), Some(<< <<0, 0>>, <<1, 1>> >>)}

(* Calls with a Euclidean type and coordinates. *)
InitEuclidean ==
    /\ edge_weight_type \in {EUC_2D, FLOOR_2D, EXACT_2D}
    /\ node_coord \in {Some(c) : c \in CoordSets}
    /\ edge_weight_format = None
    /\ comment = None
    /\ data = <<>>
    /\ numpy_legacy = FALSE

(* Calls with an explicit payload. *)
InitExplicit ==
    /\ edge_weight_type = EXPLICIT
    /\ node_coord = None
    /\ data \in Payloads
    /\ \/ /\ edge_weight_format = Some(LOWER_ROW)
          /\ comment \in Comments
          /\ numpy_legacy = FALSE
       \/ /\ edge_weight_format = Some(FULL_MATRIX)
          /\ comment = None
          /\ numpy_legacy \in BOOLEAN

(* Calls with every combination of the tags. *)
InitTags ==
    /\ edge_weight_type \in Types
    /\ edge_weight_format \in Formats
    /\ node_coord \in SmallCoords
    /\ comment \in Comments
    /\ data \in SmallPayloads
    /\ numpy_legacy = FALSE

Init ==
    /\ pc = "call"
    /\ result = NoResult
    /\ (InitEuclidean \/ InitExplicit \/ InitTags)

(* One call of parse_distances on the inputs of the state. *)
ParseDistances ==
    /\ pc = "call"
    /\ result' = parse_distances(data, edge_weight_type, edge_weight_format,
                                 node_coord, comment)
    /\ pc' = "done"
    /\ UNCHANGED <<data, edge_weight_type, edge_weight_format, node_coord,
                   comment, numpy_legacy>>

Next == ParseDistances

Spec == Init /\ [][Next]_vars

(***************************************************************************)
(* Vocabulary of the properties.                                           *)
(***************************************************************************)
Done == pc = "done"
IsMatrix(r) == r.kind = "array" /\ Len(r.shape) = 2
Failed(r) == r.kind = "error"
HasEilon(c) == c # None /\ Contains(StrEilon, c.val)
IsLowerRow == edge_weight_type = EXPLICIT /\ edge_weight_format = Some(LOWER_ROW)
IsFullMatrix == edge_weight_type = EXPLICIT /\ edge_weight_format = Some(FULL_MATRIX)
Is2D == edge_weight_type \in {EUC_2D, FLOOR_2D, EXACT_2D}

Symmetric(r) ==
    /\ r.shape[1] = r.shape[2]
    /\ \A i, j \in 0..(r.shape[1] - 1) : r.m[i][j] = r.m[j][i]

ZeroDiagonal(r) ==
    /\ r.shape[1] = r.shape[2]
    /\ \A i \in 0..(r.shape[1] - 1) : r.m[i][i] = Exact(0)

PayloadSymmetricZeroDiagonal(d) ==
    /\ \A r \in 1..Len(d) : Len(d[r]) = Len(d)
    /\ \A r, c \in 1..Len(d) : d[r][c] = d[c][r]
    /\ \A r \in 1..Len(d) : d[r][r] = 0

(* Row r of the payload (the row of node r) holds exactly r entries. *)
WellShaped(d) == \A r \in 1..Len(d) : Len(d[r]) = r

(* L = n (n - 1) / 2 for some integer n. *)
TriangularLength(L) == \E n \in 0..(L + 1) : n * (n - 1) = 2 * L

PairwiseDistinct(f) == \A a, b \in 1..Len(f) : a # b => f[a] # f[b]

(* The 0-based position of the pair (i, j), i < j < n, among all such      *)
(* pairs in lexicographic order.                                           *)
LexRank(i, j, n) == i * n - (i * (i + 1)) \div 2 + (j - i - 1)

(* The error kinds of the specification, by the exception raised. *)
ErrorKind(r) ==
    IF r.exc = "ValueError" /\ r.msg = MsgNoCoords THEN "MissingInput"
    ELSE IF r.exc = "ValueError"
            /\ r.msg \in {MsgTypeUnknown, MsgFormatUnknown, MsgTypeOrFormatUnknown}
    THEN "UnsupportedSpec"
    ELSE "Other"

(* The same call with the 'Eilon' marker of the comment toggled. *)
ToggledComment == IF HasEilon(comment) THEN None ELSE Some(StrEilon)
ToggledResult == parse_distances(data, edge_weight_type, edge_weight_format,
                                 node_coord, ToggledComment)

(***************************************************************************)
(* C1 as stated: every returned matrix, FULL_MATRIX included, is symmetric *)
(* with a zero diagonal.                                                   *)
(***************************************************************************)
C1_Original ==
    (Done /\ IsMatrix(result)) => (Symmetric(result) /\ ZeroDiagonal(result))

(***************************************************************************)
(* C1 amended: every matrix returned for a 2D type or for LOWER_ROW (with  *)
(* or without an 'Eilon' comment) is symmetric with a zero diagonal; a     *)
(* FULL_MATRIX payload is returned unchanged, so the matrix is symmetric   *)
(* with a zero diagonal exactly when the payload is.                       *)
(***************************************************************************)
C1_SymmetricZeroDiagonal ==
    (Done /\ IsMatrix(result)) =>
        IF IsFullMatrix
        THEN (Symmetric(result) /\ ZeroDiagonal(result))
                 <=> PayloadSymmetricZeroDiagonal(data)
        ELSE Symmetric(result) /\ ZeroDiagonal(result)

C1_Witness ==
    /\ Done /\ IsLowerRow /\ ~HasEilon(comment)
    /\ IsMatrix(result) /\ result.shape = <<4, 4>>
    /\ result.m[3][1] # Exact(0) /\ result.m[3][1] # result.m[3][2]
    /\ result.m[1][3] = result.m[3][1]

(***************************************************************************)
(* C2 as stated: an 'Eilon' LOWER_ROW payload whose flattened length is    *)
(* not n(n-1)/2 for any n makes the call fail (any raised exception is     *)
(* accepted as the failure) and no matrix is returned.                     *)
(***************************************************************************)
C2_Claim ==
    (Done /\ IsLowerRow /\ HasEilon(comment)
          /\ ~TriangularLength(Len(flatten(data))))
        => Failed(result)

(***************************************************************************)
(* C3 as stated: a LOWER_ROW payload without 'Eilon' comment whose rows    *)
(* do not have the lengths 1, 2, ..., n-1 makes the call fail (any raised  *)
(* exception is accepted as the failure) and no matrix is returned.        *)
(***************************************************************************)
C3_Claim ==
    (Done /\ IsLowerRow /\ ~HasEilon(comment) /\ ~WellShaped(data))
        => Failed(result)

(***************************************************************************)
(* C4: an edge weight type outside the four accepted ones fails with       *)
(* UnsupportedSpec whatever the other arguments are; a 2D type without     *)
(* coordinates fails with MissingInput; EXPLICIT with a format that is     *)
(* absent or neither LOWER_ROW nor FULL_MATRIX fails with UnsupportedSpec. *)
(***************************************************************************)
C4_Rejection ==
    Done =>
        /\ edge_weight_type \notin {EUC_2D, FLOOR_2D, EXACT_2D, EXPLICIT}
             => (Failed(result) /\ ErrorKind(result) = "UnsupportedSpec")
        /\ (Is2D /\ node_coord = None)
             => (Failed(result) /\ ErrorKind(result) = "MissingInput")
        /\ (edge_weight_type = EXPLICIT
               /\ edge_weight_format \notin {Some(LOWER_ROW), Some(FULL_MATRIX)})
             => (Failed(result) /\ ErrorKind(result) = "UnsupportedSpec")

C4_Witness ==
    /\ Done /\ edge_weight_type = MAN_2D /\ node_coord = None
    /\ Failed(result) /\ ErrorKind(result) = "UnsupportedSpec"

(***************************************************************************)
(* C5: for a well-shaped LOWER_ROW payload T without 'Eilon' comment the   *)
(* result is the n-by-n matrix, n = len(T) + 1, with                       *)
(* M[i][j] = M[j][i] = T[i-1][j] for every j < i and a zero diagonal.      *)
(***************************************************************************)
C5_RowMajor ==
    (Done /\ IsLowerRow /\ ~HasEilon(comment) /\ WellShaped(data)) =>
        LET n == Len(data) + 1
        IN /\ IsMatrix(result)
           /\ result.shape = <<n, n>>
           /\ \A i \in 1..(n - 1) : \A j \in 0..(i - 1) :
                 /\ result.m[i][j] = Exact(data[i][j + 1])
                 /\ result.m[j][i] = Exact(data[i][j + 1])
           /\ \A i \in 0..(n - 1) : result.m[i][i] = Exact(0)

C5_Witness ==
    /\ Done /\ IsLowerRow /\ ~HasEilon(comment)
    /\ data = << <<1>>, <<2, 3>> >>
    /\ IsMatrix(result)
    /\ result.m[1][0] = Exact(1)
    /\ result.m[2][0] = Exact(2)
    /\ result.m[2][1] = Exact(3)

(***************************************************************************)
(* C6: for an 'Eilon' LOWER_ROW payload that flattens to F of length       *)
(* L = n(n-1)/2 (n >= 1) the result is n-by-n, the k-th element of F is    *)
(* M[i][j] and M[j][i] for the k-th pair i < j in lexicographic order,     *)
(* and every element of F is used exactly once.                            *)
(***************************************************************************)
C6_EilonOrder ==
    (Done /\ IsLowerRow /\ HasEilon(comment)) =>
        LET F == flatten(data)
        IN \A n \in 1..(Len(F) + 1) :
             (n * (n - 1) = 2 * Len(F)) =>
                /\ IsMatrix(result)
                /\ result.shape = <<n, n>>
                /\ \A i, j \in 0..(n - 1) :
                     (i < j) =>
                        /\ result.m[i][j] = Exact(F[LexRank(i, j, n) + 1])
                        /\ result.m[j][i] = Exact(F[LexRank(i, j, n) + 1])
                /\ \A k \in 0..(Len(F) - 1) :
                     Cardinality({p \in (0..(n - 1)) \X (0..(n - 1)) :
                                    p[1] < p[2] /\ LexRank(p[1], p[2], n) = k}) = 1
                /\ \A i \in 0..(n - 1) : result.m[i][i] = Exact(0)

C6_Witness ==
    /\ Done /\ IsLowerRow /\ HasEilon(comment)
    /\ Len(flatten(data)) = 6 /\ PairwiseDistinct(flatten(data))
    /\ IsMatrix(result) /\ result.shape = <<4, 4>>
    /\ result.m[0][3] = Exact(flatten(data)[3])
    /\ result.m[1][2] = Exact(flatten(data)[4])
    /\ result.m[2][3] = Exact(flatten(data)[6])

(***************************************************************************)
(* C7: for a well-shaped LOWER_ROW payload with n >= 4 and pairwise        *)
(* distinct values, the call with an 'Eilon' comment and the call without  *)
(* one both return a matrix, and the two matrices differ.                  *)
(***************************************************************************)
C7_OrdersDiverge ==
    (Done /\ IsLowerRow /\ WellShaped(data) /\ Len(data) + 1 >= 4
          /\ PairwiseDistinct(flatten(data))) =>
        /\ IsMatrix(result)
        /\ IsMatrix(ToggledResult)
        /\ result # ToggledResult

C7_Witness ==
    /\ Done /\ IsLowerRow /\ WellShaped(data) /\ Len(data) + 1 = 4
    /\ PairwiseDistinct(flatten(data))
    /\ HasEilon(comment)
    /\ IsMatrix(result) /\ IsMatrix(ToggledResult)
    /\ result.m[2][1] # ToggledResult.m[2][1]

(***************************************************************************)
(* C8 as stated: a returned matrix has the dimension the input implies:    *)
(* the number of coordinate rows for a 2D type, the number of payload rows *)
(* plus one for LOWER_ROW without 'Eilon', the n with n(n-1)/2 = number of *)
(* payload values for LOWER_ROW with 'Eilon', and the payload's dimension  *)
(* for FULL_MATRIX.                                                        *)
(***************************************************************************)
C8_Claim ==
    (Done /\ IsMatrix(result)) =>
        /\ Is2D => result.shape = <<Len(node_coord.val), Len(node_coord.val)>>
        /\ (IsLowerRow /\ ~HasEilon(comment))
             => result.shape = <<Len(data) + 1, Len(data) + 1>>
        /\ (IsLowerRow /\ HasEilon(comment))
             => /\ result.shape[1] = result.shape[2]
                /\ result.shape[1] * (result.shape[1] - 1) = 2 * Len(flatten(data))
        /\ IsFullMatrix => result.shape = <<Len(data), Len(data[1])>>

(***************************************************************************)
(* C9: with s the squared distance of the integer points i # j, EUC_2D     *)
(* returns the raw root (exactly r when s = r * r), FLOOR_2D the greatest  *)
(* integer k with k * k <= s, EXACT_2D the integer k nearest to            *)
(* 1000 * sqrt(s), i.e. k - 1/2 < 1000 sqrt(s) < k + 1/2, which in         *)
(* integers is (k = 0 or k*k - k < 1000000 s) and 1000000 s <= k*k + k;    *)
(* both triangle halves hold the same value.                               *)
(***************************************************************************)
C9_PostProcessing ==
    (Done /\ Is2D /\ node_coord # None) =>
        LET c == node_coord.val
            n == Len(c)
            S(i, j) == (c[i + 1][1] - c[j + 1][1]) * (c[i + 1][1] - c[j + 1][1])
                       + (c[i + 1][2] - c[j + 1][2]) * (c[i + 1][2] - c[j + 1][2])
        IN /\ IsMatrix(result)
           /\ result.shape = <<n, n>>
           /\ \A i, j \in 0..(n - 1) :
                (i # j) =>
                   LET x == result.m[i][j]
                       s == S(i, j)
                   IN /\ x = result.m[j][i]
                      /\ edge_weight_type = EUC_2D =>
                            IF \E r \in 0..s : r * r = s
                            THEN ~x.surd /\ x.v * x.v = s
                            ELSE x = Root(s)
                      /\ edge_weight_type = FLOOR_2D =>
                            /\ ~x.surd
                            /\ x.v * x.v <= s
                            /\ s < (x.v + 1) * (x.v + 1)
                      /\ edge_weight_type = EXACT_2D =>
                            /\ ~x.surd
                            /\ x.v >= 0
                            /\ (x.v = 0 \/ x.v * x.v - x.v < 1000000 * s)
                            /\ 1000000 * s <= x.v * x.v + x.v

C9_Witness ==
    /\ Done /\ edge_weight_type = EXACT_2D
    /\ node_coord = Some(<< <<0, 0>>, <<1, 1>>, <<0, 2>> >>)
    /\ IsMatrix(result)
    /\ result.m[0][1] = Exact(1414)
    /\ result.m[1][0] = Exact(1414)
    /\ result.m[0][2] = Exact(2000)

(***************************************************************************)
(* C10: for a well-shaped LOWER_ROW payload with at most two rows (n <= 3) *)
(* the call with an 'Eilon' comment and the call without one return the    *)
(* same matrix.                                                            *)
(***************************************************************************)
C10_SameUpToThree ==
    (Done /\ IsLowerRow /\ WellShaped(data) /\ Len(data) + 1 <= 3) =>
        /\ IsMatrix(result)
        /\ result = ToggledResult

C10_Witness ==
    /\ Done /\ IsLowerRow /\ WellShaped(data) /\ Len(data) = 2
    /\ PairwiseDistinct(flatten(data))
    /\ HasEilon(comment)
    /\ IsMatrix(result) /\ result.shape = <<3, 3>>
    /\ result = ToggledResult
    /\ result.m[2][1] = Exact(data[2][2])

====
